---- MODULE Spec2Model ----
(***************************************************************************)
(* Kallisto EM isoform quantification (kallisto_em.py): e_step, m_step and *)
(* the iteration controller run_em_algorithm, modelled as a state machine. *)
(*                                                                         *)
(* Floating-point values are modelled as exact rationals <<n, d>> in       *)
(* lowest terms with d > 0, so "sums to 1" is an exact equality.  The run  *)
(* on the example data, whose exact values outgrow the integers after a    *)
(* few iterations, is modelled a second time in binary fixed point with    *)
(* FracBits fractional bits and round-to-nearest division.                 *)
(***************************************************************************)
EXTENDS Integers, Sequences, FiniteSets, TLC

(***************************************************************************)
(* Bounds of the model.                                                    *)
(***************************************************************************)
MaxT == 2
MaxR == 2
MaxIters == 2
MaxDenominator == 100
MaxExampleIters == 16
FracBits == 24

(***************************************************************************)
(* Rational arithmetic (numpy float arithmetic, made exact).               *)
(***************************************************************************)
Abs(n) == IF n < 0 THEN -n ELSE n

RECURSIVE GCD(_, _)
GCD(a, b) == IF b = 0 THEN a ELSE GCD(b, a % b)

Norm(n, d) ==
  LET s == IF d < 0 THEN -1 ELSE 1
      g == GCD(Abs(n), Abs(d))
  IN  <<(s * n) \div g, (s * d) \div g>>

ToFloat(k) == <<k, 1>>
Zero == ToFloat(0)
One == ToFloat(1)

Lcm(c, d) == (c \div GCD(c, d)) * d
Scale(a, l) == a[1] * (l \div a[2])

RAdd(a, b) ==
  LET l == Lcm(a[2], b[2]) IN Norm(Scale(a, l) + Scale(b, l), l)
RSub(a, b) ==
  LET l == Lcm(a[2], b[2]) IN Norm(Scale(a, l) - Scale(b, l), l)
RMul(a, b) ==
  LET g1 == GCD(Abs(a[1]), b[2])
      g2 == GCD(Abs(b[1]), a[2])
  IN  Norm((a[1] \div g1) * (b[1] \div g2), (a[2] \div g2) * (b[2] \div g1))
RDiv(a, b) ==
  LET gn == GCD(Abs(a[1]), Abs(b[1]))
      gd == GCD(a[2], b[2])
  IN  Norm((a[1] \div gn) * (b[2] \div gd), (a[2] \div gd) * (b[1] \div gn))
\* a1/a2 < b1/b2 for positive a2, b2, by comparing continued fractions
RECURSIVE FracLess(_, _, _, _)
FracLess(a1, a2, b1, b2) ==
  LET qa == a1 \div a2
      qb == b1 \div b2
      ra == a1 % a2
      rb == b1 % b2
  IN  IF qa # qb THEN qa < qb
      ELSE IF rb = 0 THEN FALSE
      ELSE IF ra = 0 THEN TRUE
      ELSE FracLess(b2, rb, a2, ra)

RLess(a, b) == FracLess(a[1], a[2], b[1], b[2])
RAbs(a) == <<Abs(a[1]), a[2]>>
RMax(a, b) == IF RLess(a, b) THEN b ELSE a

RECURSIVE RSum(_)
RSum(s) == IF s = <<>> THEN Zero ELSE RAdd(Head(s), RSum(Tail(s)))

RECURSIVE RMaxOf(_)
RMaxOf(s) == IF Len(s) = 1 THEN s[1] ELSE RMax(s[1], RMaxOf(Tail(s)))

(***************************************************************************)
(* Shapes and numpy broadcasting of the leading axis.                      *)
(***************************************************************************)
Rows(M) == Len(M)
Cols(M) == IF Len(M) = 0 THEN 0 ELSE Len(M[1])

CanBroadcast(m, n) == m = n \/ m = 1 \/ n = 1
BroadcastLen(m, n) == IF m = 1 THEN n ELSE m
\* mutant: every row takes the first abundance entry
PickFirst(i, n) == 1

Pick(i, n) == IF n = 1 THEN 1 ELSE i

(***************************************************************************)
(* e_step: posterior responsibilities.                                     *)
(***************************************************************************)
Weighted(pi, A) ==
  [i \in 1..BroadcastLen(Rows(A), Len(pi)) |->
     [r \in 1..Cols(A) |->
        RMul(ToFloat(A[Pick(i, Rows(A))][r]), pi[Pick(i, Len(pi))])]]

ColSums(W, R) ==
  [r \in 1..R |-> RSum([i \in 1..Len(W) |-> W[i][r]])]

\* mutant: the weighted value is not divided by its column total
SafeDivideForgotten(w, c) == w

SafeDivide(w, c) == IF c # Zero THEN RDiv(w, c) ELSE Zero

e_step(pi, A) ==
  LET weighted == Weighted(pi, A)
      col_sums == ColSums(weighted, Cols(A))
  IN  [i \in 1..Len(weighted) |->
        [r \in 1..Cols(A) |-> SafeDivide(weighted[i][r], col_sums[r])]]

(***************************************************************************)
(* m_step: new abundance estimates.                                        *)
(***************************************************************************)
\* mutant: the posterior is summed over axis 0 instead of axis 1
ExpectedCountsAxis0(P) ==
  [r \in 1..Cols(P) |-> RSum([t \in 1..Len(P) |-> P[t][r]])]

ExpectedCounts(P) == [t \in 1..Len(P) |-> RSum(P[t])]
Total(P) == RSum(ExpectedCounts(P))
\* mutant: the fallback vector is filled with 1.0 instead of 1.0 / T
UniformOnes(T) == [t \in 1..T |-> One]

Uniform(T) == [t \in 1..T |-> Norm(1, T)]

TakesFallback(P) == ~RLess(Zero, Total(P))

\* mutant: the expected counts are returned without dividing by their total
m_stepCounts(P, A) == ExpectedCounts(P)

m_step(P, A) ==
  LET expected_counts == ExpectedCounts(P)
      total == RSum(expected_counts)
  IN  IF ~TakesFallback(P)
        THEN [t \in 1..Len(expected_counts) |-> RDiv(expected_counts[t], total)]
        ELSE Uniform(Len(expected_counts))

(***************************************************************************)
(* Convergence test of run_em_algorithm.                                   *)
(***************************************************************************)
AbsDiff(u, a) ==
  [i \in 1..BroadcastLen(Len(u), Len(a)) |->
     RAbs(RSub(u[Pick(i, Len(u))], a[Pick(i, Len(a))]))]

MaxAbsDiff(u, a) == RMaxOf(AbsDiff(u, a))

\* mutant: the test is <= tol
ConvergedOrEqual(u, a, t) == ~RLess(t, MaxAbsDiff(u, a))

\* mutant: the comparison is the wrong way round
ConvergedInverted(u, a, t) == RLess(t, MaxAbsDiff(u, a))

Converged(u, a, t) == RLess(MaxAbsDiff(u, a), t)

(***************************************************************************)
(* Arguments of one call run_em_algorithm(assignment_matrix,               *)
(* initial_abundance, tol, max_iters).                                     *)
(***************************************************************************)
None == [is_none |-> TRUE, v |-> <<>>]
Given(v) == [is_none |-> FALSE, v |-> v]

Vectors(n, S) == [1..n -> S]
Matrices(T, R, S) == [1..T -> [1..R -> S]]

Vals == {<<0, 1>>, <<1, 2>>, <<1, 1>>}
Tols == {<<0, 1>>, <<1, 10000>>, <<1, 4>>}

NegVals == {<<-1, 2>>, <<1, 1>>}
Half == <<1, 2>>

\* Reads are exchangeable (e_step works column by column and m_step sums over
\* the columns), so one matrix stands for each multiset of columns: the one
\* whose columns are in non-decreasing order of ColCode.
RECURSIVE ColCode(_, _, _)
ColCode(A, r, t) ==
  IF t > Rows(A) THEN 0 ELSE (A[t][r] + 1) + 3 * ColCode(A, r, t + 1)

ColumnsSorted(A) ==
  \A r \in 1..Cols(A) - 1 : ColCode(A, r, 1) <= ColCode(A, r + 1, 1)

Shapes(S) ==
  {A \in UNION {Matrices(T, R, S) : T \in 1..MaxT, R \in 0..MaxR} :
     ColumnsSorted(A)}

ValidMatrices == Shapes({0, 1})

ValidInitials(A) == {None} \cup {Given(v) : v \in Vectors(Rows(A), Vals)}

MismatchInitials(A) ==
  {Given(v) : v \in UNION {Vectors(L, {Half}) : L \in (0..MaxT + 1) \ {Rows(A)}}}

NegativeInitials(A) ==
  {Given(v) : v \in {w \in Vectors(Rows(A), NegVals) : \E t \in 1..Len(w) : w[t][1] < 0}}

NegativeMatrices ==
  {A \in Shapes({-1, 1}) :
     \E t \in 1..Rows(A) : \E r \in 1..Cols(A) : A[t][r] < 0}

EmptyInitials(A) == {None, Given(<<>>), Given(<<Half>>)}

ValidCall(A, ia) == A \in ValidMatrices /\ ia \in ValidInitials(A)

MalformedCall(A, ia) ==
  \/ A \in ValidMatrices /\ ia \in MismatchInitials(A)
  \/ A \in ValidMatrices /\ ia \in NegativeInitials(A)
  \/ A \in NegativeMatrices /\ ia = None
  \/ A = <<>> /\ ia \in EmptyInitials(A)

(***************************************************************************)
(* Input validity as the data model states it (section 3).                 *)
(***************************************************************************)
HasNegative(A, ia) ==
  \/ \E t \in 1..Rows(A) : \E r \in 1..Cols(A) : A[t][r] < 0
  \/ \E t \in 1..Len(ia.v) : ia.v[t][1] < 0

Malformed(A, ia) ==
  \/ Rows(A) = 0
  \/ ~ia.is_none /\ Len(ia.v) # Rows(A)
  \/ HasNegative(A, ia)

(***************************************************************************)
(* State of one call of run_em_algorithm.                                  *)
(***************************************************************************)
VARIABLES
  assignment_matrix,   \* argument
  initial_abundance,   \* argument: None or Given(vector)
  tol,                 \* argument
  max_iters,           \* argument
  alpha,               \* current abundance estimate
  iteration,           \* next value of the range(max_iters) loop variable
  posterior,           \* result of the last e_step
  updated,             \* result of the last m_step
  pc,                  \* control point
  result,              \* the returned pair, once returned
  raised,              \* the exception that ended the call, if any
  warned,              \* whether the non-convergence warning was printed
  estimates            \* history: the values alpha has taken, in order

vars == <<assignment_matrix, initial_abundance, tol, max_iters, alpha,
          iteration, posterior, updated, pc, result, raised, warned,
          estimates>>

args == <<assignment_matrix, initial_abundance, tol, max_iters>>

NoResult == [returned |-> FALSE, abundance |-> <<>>, n_iterations |-> 0]
\* mutant: the 0-based loop index is returned
ReturnIndex(a, n) == [returned |-> TRUE, abundance |-> a, n_iterations |-> n - 1]

Return(a, n) == [returned |-> TRUE, abundance |-> a, n_iterations |-> n]

Init ==
  /\ \/ ValidCall(assignment_matrix, initial_abundance)
     \/ MalformedCall(assignment_matrix, initial_abundance)
  /\ tol \in Tols
  /\ max_iters \in 0..MaxIters
  /\ alpha = <<>>
  /\ iteration = 0
  /\ posterior = <<>>
  /\ updated = <<>>
  /\ pc = "start"
  /\ result = NoResult
  /\ raised = "none"
  /\ warned = FALSE
  /\ estimates = <<>>

Raise(e) ==
  /\ pc' = "raised"
  /\ raised' = e
  /\ UNCHANGED <<args, alpha, iteration, posterior, updated, result, warned,
                 estimates>>

\* lines 96-101: initialize the abundance vector
Initialize ==
  /\ pc = "start"
  /\ IF initial_abundance.is_none
       THEN IF Rows(assignment_matrix) = 0
              THEN Raise("ZeroDivisionError")
              ELSE /\ alpha' = Uniform(Rows(assignment_matrix))
                   /\ estimates' = <<alpha'>>
                   /\ pc' = "loop"
                   /\ UNCHANGED <<args, iteration, posterior, updated,
                                  result, raised, warned>>
       ELSE /\ alpha' = initial_abundance.v
            /\ estimates' = <<alpha'>>
            /\ pc' = "loop"
            /\ UNCHANGED <<args, iteration, posterior, updated,
                           result, raised, warned>>

\* The model follows a call while its values fit the model's integers.
Representable(a) == \A t \in 1..Len(a) : a[t][2] <= MaxDenominator

\* line 104: the loop head takes the next value of range(max_iters)
NextIteration ==
  /\ pc = "loop"
  /\ iteration < max_iters
  /\ Representable(alpha)
  /\ pc' = "e_step"
  /\ UNCHANGED <<args, alpha, iteration, posterior, updated, result,
                 raised, warned, estimates>>

\* lines 118-119: the range is exhausted
Exhausted ==
  /\ pc = "loop"
  /\ ~(iteration < max_iters)
  /\ warned' = TRUE
  /\ result' = Return(alpha, max_iters)
  /\ pc' = "done"
  /\ UNCHANGED <<args, alpha, iteration, posterior, updated, raised,
                 estimates>>

\* line 106
EStep ==
  /\ pc = "e_step"
  /\ IF ~CanBroadcast(Rows(assignment_matrix), Len(alpha))
       THEN Raise("ValueError")
       ELSE /\ posterior' = e_step(alpha, assignment_matrix)
            /\ pc' = "m_step"
            /\ UNCHANGED <<args, alpha, iteration, updated, result,
                           raised, warned, estimates>>

\* line 109
MStep ==
  /\ pc = "m_step"
  /\ IF TakesFallback(posterior) /\ Len(posterior) = 0
       THEN Raise("ZeroDivisionError")
       ELSE /\ updated' = m_step(posterior, assignment_matrix)
            /\ pc' = "check"
            /\ UNCHANGED <<args, alpha, iteration, posterior, result,
                           raised, warned, estimates>>

\* lines 112-116
Check ==
  /\ pc = "check"
  /\ IF ~CanBroadcast(Len(updated), Len(alpha))
          \/ BroadcastLen(Len(updated), Len(alpha)) = 0
       THEN Raise("ValueError")
       ELSE /\ alpha' = updated
            /\ estimates' = Append(estimates, updated)
            /\ IF Converged(updated, alpha, tol)
                 THEN /\ result' = Return(updated, iteration + 1)
                      /\ pc' = "done"
                      /\ UNCHANGED iteration
                 ELSE /\ iteration' = iteration + 1
                      /\ pc' = "loop"
                      /\ UNCHANGED result
            /\ UNCHANGED <<args, posterior, updated, raised, warned>>

Next ==
  \/ Initialize
  \/ NextIteration
  \/ Exhausted
  \/ EStep
  \/ MStep
  \/ Check

Spec == Init /\ [][Next]_vars

(***************************************************************************)
(* m_step applied on its own to any non-negative T x R matrix.             *)
(***************************************************************************)
InitM ==
  /\ \E T \in 1..MaxT : \E R \in 0..MaxR :
       /\ posterior \in Matrices(T, R, Vals)
       /\ assignment_matrix = [t \in 1..T |-> [r \in 1..R |-> 1]]
  /\ initial_abundance = None
  /\ tol \in Tols
  /\ max_iters = 1
  /\ alpha = Uniform(Rows(assignment_matrix))
  /\ iteration = 0
  /\ updated = <<>>
  /\ pc = "m_step"
  /\ result = NoResult
  /\ raised = "none"
  /\ warned = FALSE
  /\ estimates = <<alpha>>

SpecM == InitM /\ [][MStep]_vars

(***************************************************************************)
(* The run on the example data in binary fixed point: the integer k stands *)
(* for the float k / 2^FracBits.  Sums and products by 0/1 entries are     *)
(* exact, divisions round to nearest.                                      *)
(***************************************************************************)
RECURSIVE Pow2(_)
Pow2(n) == IF n = 0 THEN 1 ELSE 2 * Pow2(n - 1)

Unit == Pow2(FracBits)

\* the FracBits fractional bits of rem / y, rounded to nearest (rem < y)
RECURSIVE LongDivide(_, _, _, _)
LongDivide(rem, y, bits, acc) ==
  IF bits = 0 THEN acc + (IF 2 * rem >= y THEN 1 ELSE 0)
  ELSE IF 2 * rem >= y THEN LongDivide(2 * rem - y, y, bits - 1, 2 * acc + 1)
  ELSE LongDivide(2 * rem, y, bits - 1, 2 * acc)

FxDiv(x, y) == (x \div y) * Unit + LongDivide(x % y, y, FracBits, 0)

RECURSIVE FxSum(_)
FxSum(s) == IF s = <<>> THEN 0 ELSE Head(s) + FxSum(Tail(s))

RECURSIVE FxMaxOf(_)
FxMaxOf(s) ==
  IF Len(s) = 1 THEN s[1]
  ELSE LET m == FxMaxOf(Tail(s)) IN IF s[1] < m THEN m ELSE s[1]

\* create_example_data
ExampleMatrix ==
  << <<1, 0, 1, 1, 1>>,
     <<1, 1, 0, 0, 1>>,
     <<1, 1, 1, 0, 0>> >>

DefaultTol == <<1, 10000>>
DefaultMaxIters == 10000
ExampleTols == {<<1, 10>>, <<1, 100>>, <<1, 1000>>, DefaultTol}

e_stepFx(pi, A) ==
  LET T == BroadcastLen(Rows(A), Len(pi))
      R == Cols(A)
      weighted == [t \in 1..T |-> [r \in 1..R |->
                     pi[Pick(t, Len(pi))] * A[Pick(t, Rows(A))][r]]]
      col_sums == [r \in 1..R |-> FxSum([t \in 1..T |-> weighted[t][r]])]
  IN  [t \in 1..T |-> [r \in 1..R |->
         IF col_sums[r] # 0 THEN FxDiv(weighted[t][r], col_sums[r]) ELSE 0]]

\* mutant: the expected counts are returned without dividing by their total
m_stepFxCounts(P, A) == [t \in 1..Len(P) |-> FxSum(P[t])]

m_stepFx(P, A) ==
  LET expected_counts == [t \in 1..Len(P) |-> FxSum(P[t])]
      total == FxSum(expected_counts)
      T == Len(expected_counts)
  IN  IF total > 0
        THEN [t \in 1..T |-> FxDiv(expected_counts[t], total)]
        ELSE [t \in 1..T |-> FxDiv(Unit, T * Unit)]

FxMaxAbsDiff(u, a) ==
  FxMaxOf([t \in 1..BroadcastLen(Len(u), Len(a)) |->
             Abs(u[Pick(t, Len(u))] - a[Pick(t, Len(a))])])

ConvergedFx(u, a, t) == FracLess(FxMaxAbsDiff(u, a), Unit, t[1], t[2])

\* run_em_algorithm(create_example_data(), tol = ..., max_iters = ...)
InitExample ==
  /\ assignment_matrix = ExampleMatrix
  /\ initial_abundance = None
  /\ tol \in ExampleTols
  /\ max_iters \in (0..MaxExampleIters) \cup {DefaultMaxIters}
  /\ alpha = <<>>
  /\ iteration = 0
  /\ posterior = <<>>
  /\ updated = <<>>
  /\ pc = "start"
  /\ result = NoResult
  /\ raised = "none"
  /\ warned = FALSE
  /\ estimates = <<>>

\* lines 97-99: np.full(T, 1.0 / T)
InitializeFx ==
  /\ pc = "start"
  /\ alpha' = [t \in 1..Rows(assignment_matrix) |->
                 FxDiv(Unit, Rows(assignment_matrix) * Unit)]
  /\ estimates' = <<alpha'>>
  /\ pc' = "loop"
  /\ UNCHANGED <<args, iteration, posterior, updated, result, raised, warned>>

\* line 104; the model follows the first MaxExampleIters iterations
NextIterationFx ==
  /\ pc = "loop"
  /\ iteration < max_iters
  /\ iteration < MaxExampleIters
  /\ pc' = "e_step"
  /\ UNCHANGED <<args, alpha, iteration, posterior, updated, result,
                 raised, warned, estimates>>

\* line 106
EStepFx ==
  /\ pc = "e_step"
  /\ posterior' = e_stepFx(alpha, assignment_matrix)
  /\ pc' = "m_step"
  /\ UNCHANGED <<args, alpha, iteration, updated, result, raised, warned,
                 estimates>>

\* line 109
MStepFx ==
  /\ pc = "m_step"
  /\ updated' = m_stepFx(posterior, assignment_matrix)
  /\ pc' = "check"
  /\ UNCHANGED <<args, alpha, iteration, posterior, result, raised, warned,
                 estimates>>

\* lines 112-116
CheckFx ==
  /\ pc = "check"
  /\ alpha' = updated
  /\ estimates' = Append(estimates, updated)
  /\ IF ConvergedFx(updated, alpha, tol)
       THEN /\ result' = Return(updated, iteration + 1)
            /\ pc' = "done"
            /\ UNCHANGED iteration
       ELSE /\ iteration' = iteration + 1
            /\ pc' = "loop"
            /\ UNCHANGED result
  /\ UNCHANGED <<args, posterior, updated, raised, warned>>

NextExample ==
  \/ InitializeFx
  \/ NextIterationFx
  \/ Exhausted
  \/ EStepFx
  \/ MStepFx
  \/ CheckFx

SpecExample == InitExample /\ [][NextExample]_vars

(***************************************************************************)
(* Vocabulary of the properties.                                           *)
(***************************************************************************)
Valid == ~Malformed(assignment_matrix, initial_abundance)

NonNegative(v) == \A t \in 1..Len(v) : v[t][1] >= 0
SumsToOne(v) == RSum(v) = One

\* the abundance vector the loop starts from
Start ==
  IF initial_abundance.is_none
    THEN [t \in 1..Rows(assignment_matrix) |-> <<1, Rows(assignment_matrix)>>]
    ELSE initial_abundance.v

Column(M, r) == [t \in 1..Rows(M) |-> M[t][r]]
AllZero(v) == \A t \in 1..Len(v) : v[t] = Zero
SumAll(M) == RSum([r \in 1..Cols(M) |-> RSum(Column(M, r))])

\* the largest change of an entry in iteration k, and the convergence test
Change(k) ==
  RMaxOf([t \in 1..Len(estimates[k]) |->
            RAbs(RSub(estimates[k + 1][t], estimates[k][t]))])
Passes(k) == RLess(Change(k), tol)

IterationsRun == Len(estimates) - 1
Passing == {k \in 1..IterationsRun : Passes(k)}

SameRows(t, u) ==
  /\ t \in 1..Rows(assignment_matrix)
  /\ u \in 1..Rows(assignment_matrix)
  /\ t # u
  /\ assignment_matrix[t] = assignment_matrix[u]

\* the first iteration has run and has returned the start vector
FixedPointStart ==
  /\ Valid
  /\ IterationsRun >= 1
  /\ estimates[1] = Start
  /\ estimates[2] = Start

(***************************************************************************)
(* C1 (as stated): for every valid call, whatever the initial abundance,   *)
(* the tolerance and max_iters, the returned abundance vector is           *)
(* non-negative and sums to 1.                                             *)
(***************************************************************************)
C1_AlwaysSimplex ==
  Valid /\ result.returned =>
    NonNegative(result.abundance) /\ SumsToOne(result.abundance)

(***************************************************************************)
(* C1 (amended): for every valid call the returned vector is non-negative, *)
(* and it sums to 1 when max_iters >= 1 or no initial abundance was given; *)
(* with max_iters = 0 a given initial abundance is returned unchanged.     *)
(***************************************************************************)
C1_SimplexAfterOneIteration ==
  Valid /\ result.returned =>
    /\ NonNegative(result.abundance)
    /\ (max_iters >= 1 \/ initial_abundance.is_none) => SumsToOne(result.abundance)
    /\ (max_iters = 0 /\ ~initial_abundance.is_none) =>
         result.abundance = initial_abundance.v

C1_Witness ==
  /\ Valid
  /\ result.returned
  /\ ~initial_abundance.is_none
  /\ ~SumsToOne(initial_abundance.v)
  /\ max_iters >= 1
  /\ SumsToOne(result.abundance)

(***************************************************************************)
(* C2: a valid call runs at most max_iters iterations, each one e_step of  *)
(* the current estimate followed by one m_step of that posterior; it       *)
(* returns the index of the first iteration whose largest change is        *)
(* strictly below tol together with that iteration's estimate, or, when no *)
(* iteration passes, max_iters together with the last estimate; nothing    *)
(* runs after the return.                                                  *)
(***************************************************************************)
C2_LoopContract ==
  Valid =>
    /\ iteration <= max_iters
    /\ pc # "raised"
    /\ pc # "start" =>
         /\ estimates[1] = Start
         /\ alpha = estimates[Len(estimates)]
    /\ pc \in {"loop", "e_step", "m_step", "check"} =>
         /\ IterationsRun = iteration
         /\ Passing = {}
    /\ pc \in {"e_step", "m_step", "check"} => iteration < max_iters
    /\ pc = "m_step" => posterior = e_step(alpha, assignment_matrix)
    /\ pc = "check" => updated = m_step(posterior, assignment_matrix)
    /\ pc = "done" =>
         /\ result.returned
         /\ ~ENABLED Next
         /\ result.abundance = estimates[Len(estimates)]
         /\ result.n_iterations = IterationsRun
         /\ IF Passing = {}
              THEN IterationsRun = max_iters
              ELSE Passing = {IterationsRun}

C2_Witness ==
  /\ Valid
  /\ pc = "done"
  /\ result.n_iterations = 2
  /\ ~warned
  /\ Rows(assignment_matrix) >= 2

(***************************************************************************)
(* C3: for an abundance vector as long as the matrix has rows, every       *)
(* column of e_step's posterior sums to 1 or is entirely zero, and a       *)
(* column whose weighted total is zero is zero-filled without an error.    *)
(***************************************************************************)
C3_ColumnsNormalized ==
  (pc = "m_step" /\ Len(alpha) = Rows(assignment_matrix)) =>
    /\ raised = "none"
    /\ Rows(posterior) = Rows(assignment_matrix)
    /\ \A r \in 1..Cols(assignment_matrix) :
         /\ RSum(Column(posterior, r)) = One \/ AllZero(Column(posterior, r))
         /\ RSum([t \in 1..Len(alpha) |->
                    RMul(ToFloat(assignment_matrix[t][r]), alpha[t])]) = Zero
              => AllZero(Column(posterior, r))

C3_Witness ==
  /\ pc = "m_step"
  /\ Len(alpha) = Rows(assignment_matrix)
  /\ Cols(assignment_matrix) = 2
  /\ \E r \in 1..2 :
       /\ AllZero(Column(posterior, r))
       /\ \E t \in 1..Rows(assignment_matrix) : assignment_matrix[t][r] # 0
  /\ \E r \in 1..2 :
       /\ RSum(Column(posterior, r)) = One
       /\ \E t \in 1..Rows(posterior) : posterior[t][r] \notin {Zero, One}

(***************************************************************************)
(* C4: for every non-negative T x R matrix P, m_step returns a             *)
(* non-negative vector of length T that sums to 1: the uniform vector 1/T  *)
(* when the entries of P sum to zero, row sum / total otherwise.           *)
(***************************************************************************)
C4_MaximizeNormalized ==
  pc = "check" =>
    /\ Len(updated) = Rows(posterior)
    /\ NonNegative(updated)
    /\ SumsToOne(updated)
    /\ \A t \in 1..Rows(posterior) :
         IF SumAll(posterior) = Zero
           THEN updated[t] = <<1, Rows(posterior)>>
           ELSE RMul(updated[t], SumAll(posterior)) = RSum(posterior[t])

C4_Witness ==
  /\ pc = "check"
  /\ Rows(posterior) >= 2
  /\ Cols(posterior) >= 1
  /\ SumAll(posterior) = Zero
  /\ updated = [t \in 1..Rows(posterior) |-> <<1, Rows(posterior)>>]

(***************************************************************************)
(* C5: a malformed call (length mismatch, negative entry, no transcripts)  *)
(* fails before any e_step or m_step is computed and never returns.        *)
(***************************************************************************)
C5_FailFast ==
  Malformed(assignment_matrix, initial_abundance) =>
    /\ pc \in {"start", "raised"}
    /\ ~result.returned

(***************************************************************************)
(* C6 (as stated): with two or more transcripts and max_iters = 1 a valid  *)
(* call returns 1 iteration together with the non-convergence warning and  *)
(* raises nothing.                                                         *)
(***************************************************************************)
C6_OneIterationWarns ==
  (Valid /\ Rows(assignment_matrix) >= 2 /\ max_iters = 1) =>
    /\ pc # "raised"
    /\ pc = "done" => result.n_iterations = 1 /\ warned

(***************************************************************************)
(* C6 (amended): with two or more transcripts and max_iters = 1 a valid    *)
(* call returns 1 iteration and raises nothing; the warning is printed     *)
(* exactly when the change of that one iteration is not below tol.         *)
(***************************************************************************)
C6_OneIterationReturns ==
  (Valid /\ Rows(assignment_matrix) >= 2 /\ max_iters = 1) =>
    /\ pc # "raised"
    /\ pc = "done" =>
         /\ result.returned
         /\ result.n_iterations = 1
         /\ warned <=>
               ~RLess(RMaxOf([t \in 1..Len(Start) |->
                                RAbs(RSub(result.abundance[t], Start[t]))]), tol)

C6_Witness ==
  /\ Valid
  /\ Rows(assignment_matrix) >= 2
  /\ max_iters = 1
  /\ pc = "done"
  /\ result.n_iterations = 1
  /\ warned

(***************************************************************************)
(* C7 (as stated): two transcripts with identical rows get equal shares in *)
(* the converged result, whatever the initial abundance.                   *)
(***************************************************************************)
C7_EqualSplitAnyStart ==
  (Valid /\ result.returned /\ ~warned) =>
    /\ Len(result.abundance) = Rows(assignment_matrix)
    /\ \A t, u \in 1..Rows(assignment_matrix) :
         SameRows(t, u) => result.abundance[t] = result.abundance[u]

(***************************************************************************)
(* C7 (amended): two transcripts with identical rows get equal shares in   *)
(* the returned vector whenever the initial abundance gives them equal     *)
(* shares, as the uniform default does.                                    *)
(***************************************************************************)
C7_EqualSplitFromEqualStart ==
  (Valid /\ result.returned) =>
    /\ Len(result.abundance) = Rows(assignment_matrix)
    /\ \A t, u \in 1..Rows(assignment_matrix) :
         (SameRows(t, u) /\ Start[t] = Start[u]) =>
           result.abundance[t] = result.abundance[u]

C7_Witness ==
  /\ Valid
  /\ result.returned
  /\ ~warned
  /\ assignment_matrix = <<(<<1, 1>>), (<<1, 1>>)>>
  /\ result.abundance = <<(<<1, 2>>), (<<1, 2>>)>>
  /\ ~initial_abundance.is_none
  /\ ~SumsToOne(initial_abundance.v)

(***************************************************************************)
(* C8 (as stated): started from a fixed point of one EM iteration, a call  *)
(* returns that vector after 1 iteration as converged, for every tol and   *)
(* max_iters.                                                              *)
(***************************************************************************)
C8_FixedPointAnyTol ==
  (pc = "done" /\ FixedPointStart) =>
    /\ result.abundance = Start
    /\ result.n_iterations = 1
    /\ ~warned

(***************************************************************************)
(* C8 (amended): started from a fixed point of one EM iteration, a call    *)
(* with tol > 0 and max_iters >= 1 returns that vector after 1 iteration   *)
(* as converged.                                                           *)
(***************************************************************************)
C8_FixedPointPositiveTol ==
  (FixedPointStart /\ RLess(Zero, tol)) =>
    /\ pc = "done"
    /\ iteration = 0
    /\ result.abundance = Start
    /\ result.n_iterations = 1
    /\ ~warned

C8_Witness ==
  /\ pc = "done"
  /\ RLess(Zero, tol)
  /\ max_iters >= 2
  /\ FixedPointStart
  /\ ~initial_abundance.is_none
  /\ \E t, u \in 1..Len(Start) : Start[t] # Start[u]
  /\ result.n_iterations = 1

(***************************************************************************)
(* C9 (as stated): on the example matrix with uniform initialization,      *)
(* tolerance 1e-4 and the default max_iters, the run converges in fewer    *)
(* than 10000 iterations to a 3-entry vector summing to 1 in which the     *)
(* middle transcript (row index 1) has the strictly largest share.         *)
(***************************************************************************)
C9_MiddleLargest ==
  (pc = "done" /\ tol = DefaultTol /\ max_iters = DefaultMaxIters) =>
    /\ ~warned
    /\ result.n_iterations < DefaultMaxIters
    /\ Len(result.abundance) = 3
    /\ Abs(FxSum(result.abundance) - Unit) <= 1
    /\ result.abundance[2] > result.abundance[1]
    /\ result.abundance[2] > result.abundance[3]

(***************************************************************************)
(* C9 (amended): on the example matrix with uniform initialization,        *)
(* tolerance 1e-4 and the default max_iters, the run returns, converged,   *)
(* in fewer than 10000 iterations a 3-entry vector summing to 1 (up to one *)
(* unit of rounding) in which the first transcript (row index 0), the one  *)
(* compatible with four of the five reads, has the strictly largest share. *)
(***************************************************************************)
C9_FirstLargest ==
  (tol = DefaultTol /\ max_iters = DefaultMaxIters) =>
    /\ pc # "raised"
    /\ iteration < MaxExampleIters
    /\ pc = "done" =>
         /\ ~warned
         /\ result.n_iterations < DefaultMaxIters
         /\ result.n_iterations = IterationsRun
         /\ ConvergedFx(estimates[IterationsRun + 1], estimates[IterationsRun],
                        tol)
         /\ Len(result.abundance) = 3
         /\ Abs(FxSum(result.abundance) - Unit) <= 1
         /\ result.abundance[1] > result.abundance[2]
         /\ result.abundance[1] > result.abundance[3]

C9_Witness ==
  /\ pc = "done"
  /\ assignment_matrix = ExampleMatrix
  /\ tol = DefaultTol
  /\ max_iters = DefaultMaxIters
  /\ ~warned
  /\ result.n_iterations = 12
  /\ result.abundance[1] > result.abundance[2]

(***************************************************************************)
(* C10 (as stated): m_step takes the uniform fallback only if the          *)
(* assignment matrix is entirely zero or has no reads.                     *)
(***************************************************************************)
C10_FallbackOnlyForZeroMatrix ==
  (Valid /\ pc = "check" /\ TakesFallback(posterior)) =>
    \/ Cols(assignment_matrix) = 0
    \/ \A t \in 1..Rows(assignment_matrix) :
         \A r \in 1..Cols(assignment_matrix) : assignment_matrix[t][r] = 0

(***************************************************************************)
(* C10 (amended): m_step takes the uniform fallback only if every product  *)
(* A[t,r] * pi[t] is zero: the matrix is entirely zero, has no reads, or   *)
(* the abundance is zero on every transcript that has a nonzero entry.  In *)
(* a run the last case needs a given initial abundance and can only happen *)
(* in the first iteration.                                                 *)
(***************************************************************************)
C10_FallbackOnlyForZeroWeights ==
  (Valid /\ pc = "check" /\ TakesFallback(posterior)) =>
    /\ \A t \in 1..Rows(assignment_matrix) :
         \A r \in 1..Cols(assignment_matrix) :
           assignment_matrix[t][r] = 0 \/ alpha[t] = Zero
    /\ (\E t \in 1..Rows(assignment_matrix) :
          \E r \in 1..Cols(assignment_matrix) : assignment_matrix[t][r] # 0)
         => iteration = 0 /\ ~initial_abundance.is_none

C10_Witness ==
  /\ Valid
  /\ pc = "check"
  /\ TakesFallback(posterior)
  /\ \E t \in 1..Rows(assignment_matrix) :
       \E r \in 1..Cols(assignment_matrix) : assignment_matrix[t][r] # 0
  /\ \E t \in 1..Len(alpha) : alpha[t] # Zero

====
